---------------------------- MODULE Spec2Model ----------------------------
(***************************************************************************)
(* A model of the PEG.js compiler core (src/src/passes.js and              *)
(* src/src/emitter.js): the two AST passes (proxyRules, stackDepths), the  *)
(* emitter, and the parser the emitter generates.                          *)
(*                                                                         *)
(* The emitted JavaScript is modelled as a tree of statements (one record  *)
(* per emitted statement) and executed one statement at a time by a small  *)
(* interpreter, so that the slot discipline, the memo cache and the        *)
(* failure tracking of the generated parser are those of the templates.    *)
(***************************************************************************)
EXTENDS Integers, Sequences, FiniteSets, TLC

VARIABLES
  ast,                        \* the grammar AST, mutated in place by the passes
  options,                    \* compile options: [startRules |-> <<names>>]
  pc,                         \* position in the pipeline / in parse()
  todo,                       \* keys the for-in loop of proxyRules still visits
  program,                    \* the emitted parser
  input,                      \* parse(input, startRule): the input, a sequence of characters
  startRule,                  \* parse(input, startRule): the argument (or Undefined)
  pos,                        \* emitted parser: var pos
  reportFailures,             \* emitted parser: var reportFailures
  rightmostFailuresPos,       \* emitted parser: var rightmostFailuresPos
  rightmostFailuresExpected,  \* emitted parser: var rightmostFailuresExpected
  cache,                      \* emitted parser: var cache
  stack,                      \* call stack of parse_<name> activations
  result,                     \* parse(): var result (of the start rule), then the outcome
  outcome,                    \* what parse() returned or threw
  trace,                      \* history of the current parse() call (observation only)
  source,                     \* the AST as the grammar parser delivered it
  mode,                       \* which parser runs: "compiled", "reference", "uncached"
  first                       \* outcome of the compiled parser, kept for comparison

vars == <<ast, options, pc, todo, program, input, startRule, pos, reportFailures,
          rightmostFailuresPos, rightmostFailuresExpected, cache, stack, result,
          outcome, trace, source, mode, first>>

compileVars == <<ast, options, todo, program>>
\* what a running parse() call leaves alone
callVars == <<ast, options, todo, program, source, mode, first, input, startRule>>
parseVars == <<input, startRule, pos, reportFailures, rightmostFailuresPos,
               rightmostFailuresExpected, cache, stack, result, outcome, trace>>

-----------------------------------------------------------------------------
(* Bounds of the model.                                                    *)

\* Longest input string handed to parse().
MaxInputLen == 2

\* Most elements of the array of an emitted while loop that the model keeps.
MaxIter == 3

\* Most rules of a generated proxy-chain grammar.
MaxRules == 3

\* Longest input with line terminators whose error position is computed.
MaxLines == 3

-----------------------------------------------------------------------------
(* JavaScript values.                                                      *)

\* -Infinity, the value of Math.max.apply(null, []); absorbing under +.
NegInfinity == -1000

Undefined == "undefined"

\* A JavaScript number x plus the finite number d.
Plus(x, d) == IF x = NegInfinity THEN NegInfinity ELSE x + d

RECURSIVE MaxOfSeq(_)
MaxOfSeq(s) ==
  IF Len(s) = 0 THEN NegInfinity
  ELSE LET m == MaxOfSeq(Tail(s))
       IN  IF Head(s) >= m THEN Head(s) ELSE m

\* Math.max.apply(null, s)
MathMax(s) == MaxOfSeq(s)

-----------------------------------------------------------------------------
(* AST nodes, as the handlers of the passes and of the emitter read them.  *)

Literal(v)       == [type |-> "literal", value |-> v]
AnyChar          == [type |-> "any"]
Class(ps, inv, raw) ==
  [type |-> "class", parts |-> ps, inverted |-> inv, rawText |-> raw]
RuleRef(n)       == [type |-> "rule_ref", name |-> n]
Sequence(es)     == [type |-> "sequence", elements |-> es]
Choice(as)       == [type |-> "choice", alternatives |-> as]
Labeled(l, e)    == [type |-> "labeled", label |-> l, expression |-> e]
SimpleAnd(e)     == [type |-> "simple_and", expression |-> e]
SimpleNot(e)     == [type |-> "simple_not", expression |-> e]
SemanticAnd(c)   == [type |-> "semantic_and", code |-> c]
SemanticNot(c)   == [type |-> "semantic_not", code |-> c]
Optional(e)      == [type |-> "optional", expression |-> e]
ZeroOrMore(e)    == [type |-> "zero_or_more", expression |-> e]
OneOrMore(e)     == [type |-> "one_or_more", expression |-> e]
Action(e, c)     == [type |-> "action", expression |-> e, code |-> c]
Rule(n, d, e)    == [type |-> "rule", name |-> n, displayName |-> d, expression |-> e]
\* rules: the rule table in key (insertion) order; the key of a rule is its name
Grammar(s, rs)   == [type |-> "grammar", startRule |-> s, rules |-> rs]

\* displayName of a rule without one (null); the grammar parser turns an empty
\* display name into null, so no rule carries the empty string
NoName == <<>>

ExprTypes1 == {"labeled", "simple_and", "simple_not", "optional", "zero_or_more",
               "one_or_more", "action"}

\* ast.rules[name]
HasRule(rules, name) == \E i \in 1..Len(rules) : rules[i].name = name
RuleAt(rules, name) == rules[CHOOSE i \in 1..Len(rules) : rules[i].name = name]
RuleNames(rules) == {rules[i].name : i \in 1..Len(rules)}
Keys(rules) == [i \in 1..Len(rules) |-> rules[i].name]

\* All nodes of a tree, the root included.
RECURSIVE Nodes(_)
Nodes(node) ==
  {node} \cup
  CASE node.type = "grammar" ->
         UNION {Nodes(node.rules[i]) : i \in 1..Len(node.rules)}
    [] node.type = "rule" -> Nodes(node.expression)
    [] node.type = "choice" ->
         UNION {Nodes(node.alternatives[i]) : i \in 1..Len(node.alternatives)}
    [] node.type = "sequence" ->
         UNION {Nodes(node.elements[i]) : i \in 1..Len(node.elements)}
    [] node.type \in ExprTypes1 -> Nodes(node.expression)
    [] OTHER -> {}

-----------------------------------------------------------------------------
(* passes.js: proxyRules                                                   *)

isProxyRule(node) == node.type = "rule" /\ node.expression.type = "rule_ref"

RECURSIVE replace(_, _, _)
replace(node, from, to) ==
  CASE node.type = "grammar" ->
         [node EXCEPT !.rules = [i \in 1..Len(node.rules) |->
                                   replace(node.rules[i], from, to)]]
    [] node.type = "choice" ->
         [node EXCEPT !.alternatives = [i \in 1..Len(node.alternatives) |->
                                   replace(node.alternatives[i], from, to)]]
    [] node.type = "sequence" ->
         [node EXCEPT !.elements = [i \in 1..Len(node.elements) |->
                                   replace(node.elements[i], from, to)]]
    [] node.type \in ExprTypes1 \cup {"rule"} ->
         [node EXCEPT !.expression = replace(node.expression, from, to)]
    [] node.type = "rule_ref" ->
         IF node.name = from THEN [node EXCEPT !.name = to] ELSE node
    [] OTHER -> node   \* semantic_and, semantic_not, literal, any, class: nop

\* replaceRuleRefs that renames nothing
replaceRuleRefs_Nop(g, from, to) == g

replaceRuleRefs(g, from, to) == replace(g, from, to)

\* delete ast.rules[name]
DeleteRule(rules, name) ==
  SelectSeq(rules, LAMBDA r : r.name # name)

\* The loop body that leaves the start rule alone
proxyRulesBody_KeepStart(g, name) ==
  IF ~isProxyRule(RuleAt(g.rules, name)) \/ name = g.startRule THEN g
  ELSE LET r  == RuleAt(g.rules, name)
           g1 == replaceRuleRefs(g, r.name, r.expression.name)
       IN  [g1 EXCEPT !.rules = DeleteRule(g1.rules, name)]

\* One iteration of  for (var name in ast.rules) { ... }  for the key `name`.
proxyRulesBody(g, name) ==
  IF ~isProxyRule(RuleAt(g.rules, name)) THEN g
  ELSE LET r  == RuleAt(g.rules, name)
           g1 == replaceRuleRefs(g, r.name, r.expression.name)
           to == RuleAt(g1.rules, name).expression.name
           g2 == IF name = g1.startRule THEN [g1 EXCEPT !.startRule = to] ELSE g1
       IN  [g2 EXCEPT !.rules = DeleteRule(g2.rules, name)]

-----------------------------------------------------------------------------
(* passes.js: stackDepths                                                  *)

WithDepths(node, r, p) ==
  [k \in DOMAIN node \cup {"resultStackDepth", "posStackDepth"} |->
     IF k = "resultStackDepth" THEN r
     ELSE IF k = "posStackDepth" THEN p
     ELSE node[k]]

computeZeroes(node) == WithDepths(node, 0, 0)

RECURSIVE compute(_)
computeFromExpression(node, resultStackDelta, posStackDelta) ==
  LET e == compute(node.expression)
  IN  WithDepths([node EXCEPT !.expression = e],
                 Plus(e.resultStackDepth, resultStackDelta),
                 Plus(e.posStackDepth, posStackDelta))

computeChoice(node) ==
  LET as == [i \in 1..Len(node.alternatives) |-> compute(node.alternatives[i])]
  IN  WithDepths([node EXCEPT !.alternatives = as],
                 MathMax([i \in 1..Len(as) |-> as[i].resultStackDepth]),
                 MathMax([i \in 1..Len(as) |-> as[i].posStackDepth]))

\* compute.sequence without the index i in  i + e.resultStackDepth
computeSequence_NoIndex(node) ==
  LET es == [i \in 1..Len(node.elements) |-> compute(node.elements[i])]
  IN  WithDepths([node EXCEPT !.elements = es],
                 Plus(MathMax([i \in 1..Len(es) |-> es[i].resultStackDepth]), 1),
                 Plus(MathMax([i \in 1..Len(es) |-> es[i].posStackDepth]), 1))

computeSequence(node) ==
  LET es == [i \in 1..Len(node.elements) |-> compute(node.elements[i])]
  IN  WithDepths([node EXCEPT !.elements = es],
                 Plus(MathMax([i \in 1..Len(es) |->
                                 Plus(es[i].resultStackDepth, i - 1)]), 1),
                 Plus(MathMax([i \in 1..Len(es) |-> es[i].posStackDepth]), 1))

compute(node) ==
  CASE node.type = "grammar" ->
         [node EXCEPT !.rules = [i \in 1..Len(node.rules) |-> compute(node.rules[i])]]
    [] node.type = "rule"         -> computeFromExpression(node, 1, 1)
    [] node.type = "choice"       -> computeChoice(node)
    [] node.type = "sequence"     -> computeSequence(node)
    [] node.type = "labeled"      -> computeFromExpression(node, 0, 0)
    [] node.type = "simple_and"   -> computeFromExpression(node, 0, 1)
    [] node.type = "simple_not"   -> computeFromExpression(node, 0, 1)
    [] node.type = "semantic_and" -> computeZeroes(node)
    [] node.type = "semantic_not" -> computeZeroes(node)
    [] node.type = "optional"     -> computeFromExpression(node, 0, 0)
    [] node.type = "zero_or_more" -> computeFromExpression(node, 1, 0)
    [] node.type = "one_or_more"  -> computeFromExpression(node, 1, 0)
    [] node.type = "action"       -> computeFromExpression(node, 0, 1)
    [] node.type = "rule_ref"     -> computeZeroes(node)
    [] node.type = "literal"      -> computeZeroes(node)
    [] node.type = "any"          -> computeZeroes(node)
    [] node.type = "class"        -> computeZeroes(node)

stackDepths(g) == compute(g)

-----------------------------------------------------------------------------
(* Values of the emitted parser: result slots hold null, a string, an      *)
(* array of values, or are still undefined.                                *)

Null       == [t |-> "null", v |-> <<>>]
Undef      == [t |-> "undefined", v |-> <<>>]
Str(chars) == [t |-> "string", v |-> chars]
Arr(vals)  == [t |-> "array", v |-> vals]

\* f with f[k] set to v (k need not be in the domain of f)
Put(f, k, v) == [x \in DOMAIN f \cup {k} |-> IF x = k THEN v ELSE f[x]]

-----------------------------------------------------------------------------
(* The emitted code.  A code fragment is a sequence of statements; each    *)
(* statement is one statement of the templates in emitter.js.              *)

SavePos(p)        == [op |-> "savepos", p |-> p]                \* posP = pos;
RestorePos(p)     == [op |-> "restorepos", p |-> p]             \* pos = posP;
AddPos(n)         == [op |-> "addpos", n |-> n]                 \* pos += n;
Assign(r, e)      == [op |-> "assign", r |-> r, e |-> e]        \* resultR = e;
Push(r, from)     == [op |-> "push", r |-> r, from |-> from]    \* resultR.push(resultFrom);
IncReport         == [op |-> "inc"]                             \* reportFailures++;
DecReport         == [op |-> "dec"]                             \* reportFailures--;
CallMatchFailed(f) == [op |-> "matchFailed", failure |-> f]     \* matchFailed(f);
If(c, a, b)       == [op |-> "if", c |-> c, then |-> a, else |-> b]
While(c, body)    == [op |-> "while", c |-> c, body |-> body]
CacheLookup(n)    == [op |-> "cachelookup", name |-> n]         \* lines 395-400
CacheStore(n, r)  == [op |-> "cachestore", name |-> n, r |-> r] \* lines 410-413
Return(r)         == [op |-> "return", r |-> r]                 \* return resultR;
\* The bounds of the fragment emitted for one node: no JavaScript, only the
\* places where the fragment contract is observed.
MarkEnter(type, r) == [op |-> "enter", type |-> type, r |-> r]
MarkLeave(type, r) == [op |-> "leave", type |-> type, r |-> r]
\* The place where alternative i of n of a choice starts: no JavaScript.
MarkAlternative(i, n, r) == [op |-> "alternative", index |-> i, count |-> n, r |-> r]

\* right-hand sides
ENull             == [e |-> "null"]
EStr(chars)       == [e |-> "string", v |-> chars]
EEmptyArray       == [e |-> "emptyarray"]                       \* []
EArray(rs)        == [e |-> "array", rs |-> rs]                 \* [resultA, resultB, ...]
ECharAt           == [e |-> "charAt"]                           \* input.charAt(pos)
EOrEmpty(r)       == [e |-> "orEmpty", r |-> r]                 \* resultR !== null ? resultR : ''
EPredicate(c, yes, no) == [e |-> "predicate", code |-> c, yes |-> yes, no |-> no]
EAction(c, formals, actuals) ==
  [e |-> "action", code |-> c, formals |-> formals, actuals |-> actuals]
ECall(n)          == [e |-> "call", name |-> n]                 \* parse_N()

\* conditions
IsNull(r)         == [c |-> "isnull", r |-> r]                  \* resultR === null
NotNull(r)        == [c |-> "notnull", r |-> r]                 \* resultR !== null
SubstrIs(v)       == [c |-> "substr", v |-> v]    \* input.substr(pos, len) === v
InputLonger       == [c |-> "inputlonger"]                      \* input.length > pos
RegexpMatches(ps, inv) == [c |-> "regexp", parts |-> ps, inverted |-> inv]
ReportOn          == [c |-> "reporton"]                         \* reportFailures === 0
ReportOnAndNull(r) == [c |-> "reporton_isnull", r |-> r]

-----------------------------------------------------------------------------
(* Strings are sequences of characters; a character is a one-letter string. *)

\* UTF-16 code units of the characters the model uses
CharCode(ch) ==
  CASE ch = " " -> 32 [] ch = "\"" -> 34 [] ch = "," -> 44 [] ch = "-" -> 45
    [] ch = "." -> 46 [] ch = "A" -> 65 [] ch = "B" -> 66 [] ch = "E" -> 69
    [] ch = "S" -> 83 [] ch = "[" -> 91 [] ch = "\\" -> 92 [] ch = "]" -> 93
    [] ch = "^" -> 94 [] ch = "a" -> 97 [] ch = "b" -> 98 [] ch = "c" -> 99
    [] ch = "d" -> 100 [] ch = "e" -> 101 [] ch = "f" -> 102 [] ch = "g" -> 103
    [] ch = "h" -> 104 [] ch = "i" -> 105 [] ch = "j" -> 106 [] ch = "k" -> 107
    [] ch = "l" -> 108 [] ch = "m" -> 109 [] ch = "n" -> 110 [] ch = "o" -> 111
    [] ch = "p" -> 112 [] ch = "q" -> 113 [] ch = "r" -> 114 [] ch = "s" -> 115
    [] ch = "t" -> 116 [] ch = "u" -> 117 [] ch = "v" -> 118 [] ch = "w" -> 119
    [] ch = "x" -> 120 [] ch = "y" -> 121 [] ch = "z" -> 122

RECURSIVE Flatten(_)
Flatten(ss) == IF Len(ss) = 0 THEN <<>> ELSE Head(ss) \o Flatten(Tail(ss))

\* quote(s) of the emitted parser (and of utils.js), on the model's characters
quoteChar(ch) ==
  CASE ch = "\\" -> <<"\\", "\\">>
    [] ch = "\"" -> <<"\\", "\"">>
    [] OTHER -> <<ch>>
quote(s) == <<"\"">> \o Flatten([i \in 1..Len(s) |-> quoteChar(s[i])]) \o <<"\"">>

-----------------------------------------------------------------------------
(* emitter.js: emit                                                        *)

resultVar(index) == index
posVar(index)    == index

Context(r, p) == [resultIndex |-> r, posIndex |-> p]

RECURSIVE emit(_, _)

\* lines 459-485.  With no alternatives the loop body never runs and the
\* handler returns undefined.
\* emit.choice without the test of the result before the next alternative
RECURSIVE emitAlternatives_Unguarded(_, _, _)
emitAlternatives_Unguarded(alternatives, i, context) ==
  <<MarkAlternative(i, Len(alternatives), resultVar(context.resultIndex))>>
  \o emit(alternatives[i], context)
  \o (IF i # Len(alternatives)
        THEN emitAlternatives_Unguarded(alternatives, i + 1, context)
        ELSE <<>>)

RECURSIVE emitAlternatives(_, _, _)
emitAlternatives(alternatives, i, context) ==
  LET currentAlternativeCode ==
        <<MarkAlternative(i, Len(alternatives), resultVar(context.resultIndex))>>
        \o emit(alternatives[i], context)
      nextAlternativesCode ==
        IF i # Len(alternatives)
          THEN <<If(IsNull(resultVar(context.resultIndex)),
                    emitAlternatives(alternatives, i + 1, context), <<>>)>>
          ELSE <<>>
  IN  currentAlternativeCode \o nextAlternativesCode

emitChoice(node, context) ==
  IF Len(node.alternatives) = 0 THEN Undefined
  ELSE emitAlternatives(node.alternatives, 1, context)

\* lines 487-532
RECURSIVE emitElements(_, _, _)
emitElements(node, i, context) ==
  IF i > Len(node.elements)
    THEN <<Assign(resultVar(context.resultIndex),
                  EArray([k \in 1..Len(node.elements) |->
                            resultVar(context.resultIndex + (k - 1))]))>>
    ELSE LET elementContext == Context(context.resultIndex + (i - 1),
                                       context.posIndex + 1)
         IN  emit(node.elements[i], elementContext)
             \o <<If(NotNull(resultVar(context.resultIndex + (i - 1))),
                     emitElements(node, i + 1, context),
                     <<Assign(resultVar(context.resultIndex), ENull),
                       RestorePos(posVar(context.posIndex))>>)>>

emitSequence(node, context) ==
  <<SavePos(posVar(context.posIndex))>> \o emitElements(node, 1, context)

\* lines 538-561
emitSimpleAnd(node, context) ==
  LET expressionContext == Context(context.resultIndex, context.posIndex + 1)
      r == resultVar(context.resultIndex)
  IN  <<SavePos(posVar(context.posIndex)), IncReport>>
      \o emit(node.expression, expressionContext)
      \o <<DecReport,
           If(NotNull(r),
              <<Assign(r, EStr(<<>>)), RestorePos(posVar(context.posIndex))>>,
              <<Assign(r, ENull)>>)>>

\* lines 563-586
emitSimpleNot(node, context) ==
  LET expressionContext == Context(context.resultIndex, context.posIndex + 1)
      r == resultVar(context.resultIndex)
  IN  <<SavePos(posVar(context.posIndex)), IncReport>>
      \o emit(node.expression, expressionContext)
      \o <<DecReport,
           If(IsNull(r),
              <<Assign(r, EStr(<<>>))>>,
              <<Assign(r, ENull), RestorePos(posVar(context.posIndex))>>)>>

\* lines 588-606
emitSemanticAnd(node, context) ==
  <<Assign(resultVar(context.resultIndex), EPredicate(node.code, EStr(<<>>), ENull))>>

emitSemanticNot(node, context) ==
  <<Assign(resultVar(context.resultIndex), EPredicate(node.code, ENull, EStr(<<>>)))>>

\* lines 608-617
emitOptional(node, context) ==
  emit(node.expression, context)
  \o <<Assign(resultVar(context.resultIndex), EOrEmpty(resultVar(context.resultIndex)))>>

\* lines 619-638
emitZeroOrMore(node, context) ==
  LET expressionContext == Context(context.resultIndex + 1, context.posIndex)
      expressionCode == emit(node.expression, expressionContext)
      expressionResultVar == resultVar(context.resultIndex + 1)
      r == resultVar(context.resultIndex)
  IN  <<Assign(r, EEmptyArray)>>
      \o expressionCode
      \o <<While(NotNull(expressionResultVar),
                 <<Push(r, expressionResultVar)>> \o expressionCode)>>

\* lines 640-663
emitOneOrMore(node, context) ==
  LET expressionContext == Context(context.resultIndex + 1, context.posIndex)
      expressionCode == emit(node.expression, expressionContext)
      expressionResultVar == resultVar(context.resultIndex + 1)
      r == resultVar(context.resultIndex)
  IN  expressionCode
      \o <<If(NotNull(expressionResultVar),
              <<Assign(r, EEmptyArray),
                While(NotNull(expressionResultVar),
                      <<Push(r, expressionResultVar)>> \o expressionCode)>>,
              <<Assign(r, ENull)>>)>>

\* lines 665-717
actionParams(node, context) ==
  IF node.expression.type = "sequence"
    THEN LET elements == node.expression.elements
             labeled == SelectSeq([i \in 1..Len(elements) |-> i],
                                  LAMBDA i : elements[i].type = "labeled")
         IN  [formalParams |-> [k \in 1..Len(labeled) |-> elements[labeled[k]].label],
              actualParams |-> [k \in 1..Len(labeled) |->
                                  [r |-> resultVar(context.resultIndex),
                                   index |-> labeled[k] - 1]]]
    ELSE IF node.expression.type = "labeled"
      THEN [formalParams |-> <<node.expression.label>>,
            actualParams |-> <<[r |-> resultVar(context.resultIndex), index |-> -1]>>]
      ELSE [formalParams |-> <<>>, actualParams |-> <<>>]

\* emitAction without the final restore of pos
emitAction_NoRestore(node, context) ==
  LET expressionContext == Context(context.resultIndex, context.posIndex + 1)
      params == actionParams(node, context)
      r == resultVar(context.resultIndex)
  IN  <<SavePos(posVar(context.posIndex))>>
      \o emit(node.expression, expressionContext)
      \o <<If(NotNull(r),
              <<Assign(r, EAction(node.code, params.formalParams, params.actualParams))>>,
              <<>>)>>

emitAction(node, context) ==
  LET expressionContext == Context(context.resultIndex, context.posIndex + 1)
      params == actionParams(node, context)
      r == resultVar(context.resultIndex)
  IN  <<SavePos(posVar(context.posIndex))>>
      \o emit(node.expression, expressionContext)
      \o <<If(NotNull(r),
              <<Assign(r, EAction(node.code, params.formalParams, params.actualParams))>>,
              <<>>),
           If(IsNull(r), <<RestorePos(posVar(context.posIndex))>>, <<>>)>>

\* lines 719-727
emitRuleRef(node, context) ==
  <<Assign(resultVar(context.resultIndex), ECall(node.name))>>

\* lines 729-756
emitLiteral(node, context) ==
  LET r == resultVar(context.resultIndex)
  IN  IF Len(node.value) = 0
        THEN <<Assign(r, EStr(node.value))>>
        ELSE <<If(SubstrIs(node.value),
                  <<Assign(r, EStr(node.value)), AddPos(Len(node.value))>>,
                  <<Assign(r, ENull),
                    If(ReportOn, <<CallMatchFailed(quote(node.value))>>, <<>>)>>)>>

AnyCharacter == <<"a", "n", "y", " ", "c", "h", "a", "r", "a", "c", "t", "e", "r">>

\* lines 758-771
emitAny(node, context) ==
  LET r == resultVar(context.resultIndex)
  IN  <<If(InputLonger,
           <<Assign(r, ECharAt), AddPos(1)>>,
           <<Assign(r, ENull),
             If(ReportOn, <<CallMatchFailed(AnyCharacter)>>, <<>>)>>)>>

\* lines 773-810
emitClass(node, context) ==
  LET r == resultVar(context.resultIndex)
  IN  <<If(RegexpMatches(node.parts, node.inverted),
           <<Assign(r, ECharAt), AddPos(1)>>,
           <<Assign(r, ENull),
             If(ReportOn, <<CallMatchFailed(node.rawText)>>, <<>>)>>)>>

emitNode(node, context) ==
  CASE node.type = "choice"       -> emitChoice(node, context)
    [] node.type = "sequence"     -> emitSequence(node, context)
    [] node.type = "labeled"      -> emit(node.expression, context)   \* lines 534-536
    [] node.type = "simple_and"   -> emitSimpleAnd(node, context)
    [] node.type = "simple_not"   -> emitSimpleNot(node, context)
    [] node.type = "semantic_and" -> emitSemanticAnd(node, context)
    [] node.type = "semantic_not" -> emitSemanticNot(node, context)
    [] node.type = "optional"     -> emitOptional(node, context)
    [] node.type = "zero_or_more" -> emitZeroOrMore(node, context)
    [] node.type = "one_or_more"  -> emitOneOrMore(node, context)
    [] node.type = "action"       -> emitAction(node, context)
    [] node.type = "rule_ref"     -> emitRuleRef(node, context)
    [] node.type = "literal"      -> emitLiteral(node, context)
    [] node.type = "any"          -> emitAny(node, context)
    [] node.type = "class"        -> emitClass(node, context)

\* The code fragment of a node, between the marks of its bounds.
emit(node, context) ==
  <<MarkEnter(node.type, resultVar(context.resultIndex))>>
  \o emitNode(node, context)
  \o <<MarkLeave(node.type, resultVar(context.resultIndex))>>

\* lines 358-427: the function parse_<name>
emitRule(node) ==
  LET context == Context(0, 0)
      r == resultVar(context.resultIndex)
      named == node.displayName # NoName
      setReportFailuresCode == IF named THEN <<IncReport>> ELSE <<>>
      restoreReportFailuresCode == IF named THEN <<DecReport>> ELSE <<>>
      reportFailureCode ==
        IF named
          THEN <<If(ReportOnAndNull(r), <<CallMatchFailed(node.displayName)>>, <<>>)>>
          ELSE <<>>
  IN  [name       |-> node.name,
       \* range(node.resultStackDepth).map(resultVar): empty for a depth <= 0
       resultVars |-> {resultVar(i) : i \in 0..(node.resultStackDepth - 1)},
       posVars    |-> {posVar(i) : i \in 0..(node.posStackDepth - 1)},
       code       |-> <<CacheLookup(node.name)>>
                      \o setReportFailuresCode
                      \o emit(node.expression, context)
                      \o restoreReportFailuresCode
                      \o reportFailureCode
                      \o <<CacheStore(node.name, r), Return(r)>>]

\* contains(array, value)
contains(array, value) == \E i \in 1..Len(array) : array[i] = value

\* lines 93-103
parseFunctionTableItems(node, opts) ==
  LET outputStartRules == opts.startRules
  IN  SelectSeq(Keys(node.rules),
                LAMBDA name : Len(outputStartRules) = 0
                              \/ contains(outputStartRules, name))

\* A template variable whose value is undefined makes formatCode throw (line 46):
\* the code of a choice without alternatives.
emitThrows(node, opts) ==
  \/ Len(parseFunctionTableItems(node, opts)) = 0
  \/ \E n \in Nodes(node) : n.type = "choice" /\ Len(n.alternatives) = 0

\* lines 88-352: the parser.  `single` is parseFunctionTableItems.length === 1.
emitGrammar(node, opts) ==
  [single    |-> Len(parseFunctionTableItems(node, opts)) = 1,
   table     |-> {parseFunctionTableItems(node, opts)[i] :
                    i \in 1..Len(parseFunctionTableItems(node, opts))},
   startRule |-> node.startRule,
   functions |-> [i \in 1..Len(node.rules) |-> emitRule(node.rules[i])]]

Function(prog, name) ==
  prog.functions[CHOOSE i \in 1..Len(prog.functions) : prog.functions[i].name = name]

-----------------------------------------------------------------------------
(* The emitted parser: helpers of parse().                                 *)

\* matchFailed without its early return
matchFailed_NoReturn(failure, p, rPos, rExpected) ==
  IF p > rPos
    THEN [rightmostFailuresPos |-> p, rightmostFailuresExpected |-> <<failure>>]
    ELSE [rightmostFailuresPos |-> rPos,
          rightmostFailuresExpected |-> Append(rExpected, failure)]

\* lines 209-220.  Returns the two variables matchFailed assigns.
matchFailed(failure, p, rPos, rExpected) ==
  IF p < rPos
    THEN [rightmostFailuresPos |-> rPos, rightmostFailuresExpected |-> rExpected]
    ELSE IF p > rPos
      THEN [rightmostFailuresPos |-> p, rightmostFailuresExpected |-> <<failure>>]
      ELSE [rightmostFailuresPos |-> rPos,
            rightmostFailuresExpected |-> Append(rExpected, failure)]

\* a < b as JavaScript compares strings: by UTF-16 code units
RECURSIVE StrLess(_, _)
StrLess(a, b) ==
  IF Len(b) = 0 THEN FALSE
  ELSE IF Len(a) = 0 THEN TRUE
  ELSE IF CharCode(Head(a)) # CharCode(Head(b))
    THEN CharCode(Head(a)) < CharCode(Head(b))
    ELSE StrLess(Tail(a), Tail(b))

\* failuresExpected.sort()
RECURSIVE InsertSorted(_, _)
InsertSorted(x, s) ==
  IF Len(s) = 0 THEN <<x>>
  ELSE IF StrLess(x, Head(s)) THEN <<x>> \o s
  ELSE <<Head(s)>> \o InsertSorted(x, Tail(s))

RECURSIVE Sort(_)
Sort(s) == IF Len(s) = 0 THEN <<>> ELSE InsertSorted(Head(s), Sort(Tail(s)))

\* lines 226-233: drop an element equal to its predecessor
RECURSIVE Unique(_)
Unique(s) ==
  IF Len(s) <= 1 THEN s
  ELSE IF s[1] = s[2] THEN Unique(Tail(s))
  ELSE <<s[1]>> \o Unique(Tail(s))

RECURSIVE Join(_, _)
Join(ss, sep) ==
  IF Len(ss) = 0 THEN <<>>
  ELSE IF Len(ss) = 1 THEN ss[1]
  ELSE ss[1] \o sep \o Join(Tail(ss), sep)

EndOfInput == <<"e", "n", "d", " ", "o", "f", " ", "i", "n", "p", "u", "t">>

\* lines 223-245
buildExpected(failuresExpected) ==
  LET failuresExpectedUnique == Unique(Sort(failuresExpected))
      n == Len(failuresExpectedUnique)
  IN  IF n = 0 THEN EndOfInput
      ELSE IF n = 1 THEN failuresExpectedUnique[1]
      ELSE Join(SubSeq(failuresExpectedUnique, 1, n - 1), <<",", " ">>)
           \o <<" ", "o", "r", " ">>
           \o failuresExpectedUnique[n]

\* lines 222-254
buildErrorMessage(in, p, rPos, rExpected) ==
  LET expected == buildExpected(rExpected)
      actualPos == IF p >= rPos THEN p ELSE rPos
      actual == IF actualPos < Len(in) THEN quote(<<in[actualPos + 1]>>) ELSE EndOfInput
  IN  <<"E", "x", "p", "e", "c", "t", "e", "d", " ">> \o expected
      \o <<" ", "b", "u", "t", " ">> \o actual
      \o <<" ", "f", "o", "u", "n", "d", ".">>

\* lines 256-285: the loop body, for the character ch
RECURSIVE errorPositionFrom(_, _, _, _)
errorPositionFrom(in, i, upTo, st) ==
  IF i >= upTo THEN [line |-> st.line, column |-> st.column]
  ELSE LET ch == IF i < Len(in) THEN in[i + 1] ELSE ""   \* charAt past the end is ''
       IN  errorPositionFrom(in, i + 1, upTo,
             IF ch = "\n"
               THEN [line |-> IF ~st.seenCR THEN st.line + 1 ELSE st.line,
                     column |-> 1, seenCR |-> FALSE]
             ELSE IF ch = "\r" \/ ch = "u2028" \/ ch = "u2029"
               THEN [line |-> st.line + 1, column |-> 1, seenCR |-> TRUE]
               ELSE [line |-> st.line, column |-> st.column + 1, seenCR |-> FALSE])

computeErrorPosition(in, rPos) ==
  errorPositionFrom(in, 0, rPos, [line |-> 1, column |-> 1, seenCR |-> FALSE])

-----------------------------------------------------------------------------
(* Code blocks of the grammar author.  They are opaque JavaScript; the     *)
(* model knows the blocks below.                                           *)

ReturnTrue  == "return true;"
ReturnFalse == "return false;"
ReturnNull  == "return null;"
ReturnV     == "return \"v\";"

\* (function() {code})() used as a condition
userPredicate(code) == code = ReturnTrue

\* (function(formalParams) {code})(actualParams)
userAction(code, args) == IF code = ReturnNull THEN Null ELSE Str(<<"v">>)

-----------------------------------------------------------------------------
(* Execution of the emitted code: one activation record per call of a      *)
(* parse_<name> function.                                                  *)

\* The activation of parse_<name> entered at position p.
Frame(fn, p) ==
  [name  |-> fn.name,
   key   |-> <<fn.name, p>>,          \* cacheKey = '<name>@' + pos
   res   |-> [r \in fn.resultVars |-> Undef],
   ps    |-> [k \in fn.posVars |-> 0],
   code  |-> fn.code,
   marks |-> <<>>,                    \* entry positions of the open fragments
   alts  |-> <<>>]                    \* their alternative started last

\* The parser that runs: the compiled one, or the one emitted from the AST
\* as delivered, without the proxyRules pass.
Reference == emitGrammar(stackDepths(source), options)
Parser == IF mode = "reference" THEN Reference ELSE program

\* The parser with the memo cache disabled never finds an entry.
cacheEnabled == mode # "uncached"

top  == stack[Len(stack)]
stmt == Head(top.code)
rest == Tail(top.code)
SetTop(f) == [stack EXCEPT ![Len(stack)] = f]

\* /^[...]/ or /^[^...]/ on the character ch; a part is <<ch>> or <<lo, hi>>
partMatches(part, ch) ==
  IF Len(part) = 1 THEN part[1] = ch
  ELSE CharCode(part[1]) <= CharCode(ch) /\ CharCode(ch) <= CharCode(part[2])

regexpMatches(parts, inverted, ch) ==
  (\E i \in 1..Len(parts) : partMatches(parts[i], ch)) # inverted

\* input.substr(pos, length)
substr(in, p, length) ==
  SubSeq(in, p + 1, IF p + length <= Len(in) THEN p + length ELSE Len(in))

Holds(c, f) ==
  CASE c.c = "isnull"      -> f.res[c.r] = Null
    [] c.c = "notnull"     -> f.res[c.r] # Null
    [] c.c = "substr"      -> substr(input, pos, Len(c.v)) = c.v
    [] c.c = "inputlonger" -> Len(input) > pos
    [] c.c = "regexp"      -> /\ pos < Len(input)
                              /\ regexpMatches(c.parts, c.inverted, input[pos + 1])
    [] c.c = "reporton"    -> reportFailures = 0
    [] c.c = "reporton_isnull" -> reportFailures = 0 /\ f.res[c.r] = Null

actualValue(a, f) == IF a.index < 0 THEN f.res[a.r] ELSE f.res[a.r].v[a.index + 1]

RECURSIVE Value(_, _)
Value(e, f) ==
  CASE e.e = "null"       -> Null
    [] e.e = "string"     -> Str(e.v)
    [] e.e = "emptyarray" -> Arr(<<>>)
    [] e.e = "array"      -> Arr([k \in 1..Len(e.rs) |-> f.res[e.rs[k]]])
    [] e.e = "charAt"     -> Str(<<input[pos + 1]>>)
    [] e.e = "orEmpty"    -> IF f.res[e.r] # Null THEN f.res[e.r] ELSE Str(<<>>)
    [] e.e = "predicate"  -> IF userPredicate(e.code) THEN Value(e.yes, f)
                                                      ELSE Value(e.no, f)
    [] e.e = "action"     ->
         userAction(e.code, [k \in 1..Len(e.actuals) |-> actualValue(e.actuals[k], f)])

\* Statements that only write a slot of the running activation.
ExecSlot ==
  /\ pc = "running"
  /\ stmt.op \in {"savepos", "assign", "push"}
  /\ stmt.op = "assign" => stmt.e.e # "call"
  /\ stack' = SetTop(
       CASE stmt.op = "savepos" ->
              [top EXCEPT !.code = rest, !.ps = Put(top.ps, stmt.p, pos)]
         [] stmt.op = "assign" ->
              [top EXCEPT !.code = rest, !.res = Put(top.res, stmt.r, Value(stmt.e, top))]
         [] stmt.op = "push" ->
              \* an array of more than MaxIter elements is kept as its first
              \* MaxIter elements
              [top EXCEPT !.code = rest,
                          !.res = IF Len(top.res[stmt.r].v) < MaxIter
                                    THEN Put(top.res, stmt.r,
                                             Arr(Append(top.res[stmt.r].v,
                                                        top.res[stmt.from])))
                                    ELSE top.res])
  /\ UNCHANGED <<pc, pos, reportFailures, rightmostFailuresPos,
                 rightmostFailuresExpected, cache, result, outcome, trace>>
  /\ UNCHANGED callVars

\* pos = posN;  pos += n;
ExecPos ==
  /\ pc = "running"
  /\ stmt.op \in {"restorepos", "addpos"}
  /\ pos' = IF stmt.op = "restorepos" THEN top.ps[stmt.p] ELSE pos + stmt.n
  /\ stack' = SetTop([top EXCEPT !.code = rest])
  /\ UNCHANGED <<pc, reportFailures, rightmostFailuresPos,
                 rightmostFailuresExpected, cache, result, outcome, trace>>
  /\ UNCHANGED callVars

\* reportFailures++;  reportFailures--;
ExecReport ==
  /\ pc = "running"
  /\ stmt.op \in {"inc", "dec"}
  /\ reportFailures' = IF stmt.op = "inc" THEN reportFailures + 1
                                          ELSE reportFailures - 1
  /\ stack' = SetTop([top EXCEPT !.code = rest])
  /\ UNCHANGED <<pc, pos, rightmostFailuresPos,
                 rightmostFailuresExpected, cache, result, outcome, trace>>
  /\ UNCHANGED callVars

\* matchFailed(failure);
ExecMatchFailed ==
  /\ pc = "running"
  /\ stmt.op = "matchFailed"
  /\ LET m == matchFailed(stmt.failure, pos, rightmostFailuresPos,
                          rightmostFailuresExpected)
     IN  /\ rightmostFailuresPos' = m.rightmostFailuresPos
         /\ rightmostFailuresExpected' = m.rightmostFailuresExpected
  /\ trace' = [trace EXCEPT !.failLog =
                 Append(@, [pos |-> pos, failure |-> stmt.failure])]
  /\ stack' = SetTop([top EXCEPT !.code = rest])
  /\ UNCHANGED <<pc, pos, reportFailures, cache, result, outcome>>
  /\ UNCHANGED callVars

\* if (c) { ... } else { ... }   and   while (c) { ... }
ExecBranch ==
  /\ pc = "running"
  /\ stmt.op \in {"if", "while"}
  /\ stack' = SetTop([top EXCEPT !.code =
       IF stmt.op = "if"
         THEN (IF Holds(stmt.c, top) THEN stmt.then ELSE stmt.else) \o rest
         ELSE IF Holds(stmt.c, top) THEN stmt.body \o <<stmt>> \o rest ELSE rest])
  /\ UNCHANGED <<pc, pos, reportFailures, rightmostFailuresPos,
                 rightmostFailuresExpected, cache, result, outcome, trace>>
  /\ UNCHANGED callVars

NoAlternative == [index |-> 0, count |-> 0]

\* The bounds of a fragment: remember the entry position; on leaving, record
\* what the fragment did (and keep the record of the fragment left before it).
ExecMark ==
  /\ pc = "running"
  /\ stmt.op \in {"enter", "leave", "alternative"}
  /\ CASE stmt.op = "enter" ->
            /\ stack' = SetTop([top EXCEPT !.code = rest, !.marks = <<pos>> \o @,
                                           !.alts = <<NoAlternative>> \o @])
            /\ UNCHANGED trace
       [] stmt.op = "alternative" ->
            /\ stack' = SetTop([top EXCEPT !.code = rest,
                 !.alts = <<[index |-> stmt.index, count |-> stmt.count]>> \o Tail(@)])
            /\ trace' = [trace EXCEPT
                 !.alternative =
                   [index  |-> stmt.index,
                    prev   |-> Head(top.alts).index,
                    before |-> top.res[stmt.r],
                    at     |-> pos,
                    entry  |-> Head(top.marks)]]
       [] stmt.op = "leave" ->
            /\ stack' = SetTop([top EXCEPT !.code = rest, !.marks = Tail(@),
                                           !.alts = Tail(@)])
            /\ trace' = [trace EXCEPT
                 !.choice =
                   IF stmt.type = "choice"
                     THEN [last  |-> Head(top.alts).index,
                           count |-> Head(top.alts).count,
                           entry |-> Head(top.marks),
                           exit  |-> pos,
                           value |-> top.res[stmt.r],
                           alt   |-> trace.fragment]
                     ELSE @,
                 !.inner = trace.fragment,
                 !.fragment =
                   [type   |-> stmt.type,
                    entry  |-> Head(top.marks),
                    exit   |-> pos,
                    value  |-> top.res[stmt.r],
                    cached |-> stmt.type = "rule_ref" /\ trace.lastCall.hit]]
  /\ UNCHANGED <<pc, pos, reportFailures, rightmostFailuresPos,
                 rightmostFailuresExpected, cache, result, outcome>>
  /\ UNCHANGED callVars

\* resultR = parse_<name>();  the call
ExecCall ==
  /\ pc = "running"
  /\ stmt.op = "assign" /\ stmt.e.e = "call"
  /\ stack' = Append(stack, Frame(Function(Parser, stmt.e.name), pos))
  /\ UNCHANGED <<pc, pos, reportFailures, rightmostFailuresPos,
                 rightmostFailuresExpected, cache, result, outcome, trace>>
  /\ UNCHANGED callVars

\* The stack and the start rule's result once the running activation has
\* returned `value`: the caller's pending  resultR = parse_<name>()  completes.
Returned(value) ==
  IF Len(stack) = 1
    THEN /\ stack' = <<>>
         /\ result' = value
         /\ pc' = "returned"
    ELSE LET caller == stack[Len(stack) - 1]
             call == Head(caller.code)
         IN  /\ stack' = [SubSeq(stack, 1, Len(stack) - 1) EXCEPT ![Len(stack) - 1] =
                   [caller EXCEPT !.code = Tail(caller.code),
                                  !.res = Put(caller.res, call.r, value)]]
             /\ UNCHANGED <<result, pc>>

\* cacheHit testing the cached result instead of the cache entry
cacheHit_ResultTruthy(c, key) == key \in DOMAIN c /\ c[key].result # Null

\* line 397: if (cachedResult)
cacheHit(c, key) == key \in DOMAIN c

\* lines 395-400
ExecCacheLookup ==
  /\ pc = "running"
  /\ stmt.op = "cachelookup"
  /\ \/ /\ cacheEnabled /\ cacheHit(cache, top.key)
        /\ pos' = cache[top.key].nextPos
        /\ Returned(cache[top.key].result)
        /\ trace' = [trace EXCEPT !.lastCall =
             [name |-> top.name, at |-> top.key[2], hit |-> TRUE,
              result |-> cache[top.key].result, nextPos |-> cache[top.key].nextPos]]
     \/ /\ ~(cacheEnabled /\ cacheHit(cache, top.key))
        /\ stack' = SetTop([top EXCEPT !.code = rest])
        /\ trace' = [trace EXCEPT !.bodyEvals = Append(@, top.key)]
        /\ UNCHANGED <<pos, result, pc>>
  /\ UNCHANGED <<reportFailures, rightmostFailuresPos,
                 rightmostFailuresExpected, cache, outcome>>
  /\ UNCHANGED callVars

\* lines 410-413
ExecCacheStore ==
  /\ pc = "running"
  /\ stmt.op = "cachestore"
  /\ cache' = Put(cache, top.key, [nextPos |-> pos, result |-> top.res[stmt.r]])
  /\ stack' = SetTop([top EXCEPT !.code = rest])
  /\ UNCHANGED <<pc, pos, reportFailures, rightmostFailuresPos,
                 rightmostFailuresExpected, result, outcome, trace>>
  /\ UNCHANGED callVars

\* line 414
ExecReturn ==
  /\ pc = "running"
  /\ stmt.op = "return"
  /\ Returned(top.res[stmt.r])
  /\ trace' = [trace EXCEPT
       !.evaluated = Append(@, [key |-> top.key, result |-> top.res[stmt.r],
                                nextPos |-> pos]),
       !.lastCall =
         [name |-> top.name, at |-> top.key[2], hit |-> FALSE,
          result |-> top.res[stmt.r], nextPos |-> pos]]
  /\ UNCHANGED <<pos, reportFailures, rightmostFailuresPos,
                 rightmostFailuresExpected, cache, outcome>>
  /\ UNCHANGED callVars


-----------------------------------------------------------------------------
(* The compiler: proxyRules, stackDepths, emit, in this order.             *)

NoProgram == [single |-> FALSE, table |-> {}, startRule |-> Undefined, functions |-> <<>>]
NoOutcome == [kind |-> "none"]
NoFragment ==
  [type |-> "none", entry |-> 0, exit |-> 0, value |-> Undef, cached |-> FALSE]
NoTrace ==
  [alternative |-> [index |-> 0, prev |-> 0, before |-> Undef, at |-> 0, entry |-> 0],
   choice    |-> [last |-> 0, count |-> 0, entry |-> 0, exit |-> 0, value |-> Undef,
                  alt |-> NoFragment],
   bodyEvals |-> <<>>,            \* <<name, pos>> of every rule body entered
   evaluated |-> <<>>,            \* what each body evaluation returned
   failLog   |-> <<>>,            \* the calls of matchFailed: [pos, failure]
   fragment  |-> NoFragment,      \* the code fragment left last
   inner     |-> NoFragment,      \* the code fragment left before it
   lastCall |-> [name |-> Undefined, at |-> 0, hit |-> FALSE, result |-> Undef,
                 nextPos |-> 0],
   started |-> Undefined]

\* parse() has not been called
Idle ==
  /\ input = <<>>
  /\ startRule = Undefined
  /\ pos = 0
  /\ reportFailures = 0
  /\ rightmostFailuresPos = 0
  /\ rightmostFailuresExpected = <<>>
  /\ cache = <<>>
  /\ stack = <<>>
  /\ result = Undef
  /\ outcome = NoOutcome
  /\ trace = NoTrace

\* passes.js lines 68-76: the body of the for-in loop, for the next key.  A key
\* deleted before it is reached is not visited; the loop deletes only the key
\* it is visiting.
ProxyRulesStep ==
  /\ pc = "proxyRules"
  /\ todo # <<>>
  /\ ast' = IF HasRule(ast.rules, Head(todo)) THEN proxyRulesBody(ast, Head(todo))
                                              ELSE ast
  /\ todo' = Tail(todo)
  /\ UNCHANGED <<options, pc, program, source, mode, first, parseVars>>

\* passes.js line 78
ProxyRulesReturn ==
  /\ pc = "proxyRules"
  /\ todo = <<>>
  /\ pc' = "stackDepths"
  /\ UNCHANGED <<ast, options, todo, program, source, mode, first, parseVars>>

\* passes.js lines 87-155
StackDepths ==
  /\ pc = "stackDepths"
  /\ ast' = stackDepths(ast)
  /\ pc' = "emit"
  /\ UNCHANGED <<options, todo, program, source, mode, first, parseVars>>

\* emitter.js line 813
Emit ==
  /\ pc = "emit"
  /\ IF emitThrows(ast, options)
       THEN pc' = "failed" /\ UNCHANGED program
       ELSE pc' = "ready" /\ program' = emitGrammar(ast, options)
  /\ UNCHANGED <<ast, options, todo, source, mode, first, parseVars>>

-----------------------------------------------------------------------------
(* The emitted parser: parse(input, startRule).                            *)

Chars == {"a", "b"}

RECURSIVE StringsUpTo(_)
StringsUpTo(n) ==
  IF n = 0 THEN {<<>>}
  ELSE StringsUpTo(n - 1)
       \cup {Append(s, ch) : s \in {t \in StringsUpTo(n - 1) : Len(t) = n - 1},
                             ch \in Chars}

Inputs == StringsUpTo(MaxInputLen)

\* lines 129-156 and 289-291: the rule whose function parse() calls, or the
\* error it throws before.
startOf(prog, arg) ==
  IF prog.single
    THEN IF arg # Undefined /\ arg # prog.startRule
           THEN [error |-> "Invalid rule name", rule |-> Undefined]
           ELSE [error |-> "", rule |-> prog.startRule]
    ELSE IF arg # Undefined
      THEN IF arg \notin prog.table
             THEN [error |-> "Invalid rule name", rule |-> Undefined]
             ELSE [error |-> "", rule |-> arg]
      ELSE IF prog.startRule \notin prog.table
             \* parseFunctions[startRule] is undefined: calling it throws
             THEN [error |-> "TypeError", rule |-> Undefined]
             ELSE [error |-> "", rule |-> prog.startRule]

\* lines 120-125, then the start rule check, then the call of the start rule
Enter(prog, in, arg) ==
  LET s == startOf(prog, arg)
  IN  /\ input' = in
      /\ startRule' = arg
      /\ pos' = 0
      /\ reportFailures' = 0
      /\ rightmostFailuresPos' = 0
      /\ rightmostFailuresExpected' = <<>>
      /\ cache' = <<>>
      /\ result' = Undef
      /\ trace' = [NoTrace EXCEPT !.started = s.rule]
      /\ IF s.error # ""
           THEN /\ pc' = "done"
                /\ stack' = <<>>
                /\ outcome' = [kind |-> "Error", message |-> s.error]
           ELSE /\ pc' = "running"
                /\ stack' = <<Frame(Function(prog, s.rule), 0)>>
                /\ outcome' = NoOutcome

StartRuleArgs == {Undefined, "start", "a", "zz"}

Parse ==
  /\ pc \in {"ready", "done"}
  /\ \E in \in Inputs, arg \in StartRuleArgs : Enter(program, in, arg)
  /\ mode' = "compiled"
  /\ first' = NoOutcome
  /\ UNCHANGED <<ast, options, todo, program, source>>

\* parseFailed without the test of pos
parseFailed_NullOnly(res, p, in) == res = Null

\* line 317
parseFailed(res, p, in) == res = Null \/ p # Len(in)

\* lines 317-326
Finish ==
  /\ pc = "returned"
  /\ pc' = "done"
  /\ IF parseFailed(result, pos, input)
       THEN /\ outcome' =
                 [kind    |-> "SyntaxError",
                  message |-> buildErrorMessage(input, pos, rightmostFailuresPos,
                                                rightmostFailuresExpected),
                  line    |-> computeErrorPosition(input, rightmostFailuresPos).line,
                  column  |-> computeErrorPosition(input, rightmostFailuresPos).column]
            \* buildExpected sorts the array in place
            /\ rightmostFailuresExpected' = Sort(rightmostFailuresExpected)
       ELSE /\ outcome' = [kind |-> "return", value |-> result]
            /\ UNCHANGED rightmostFailuresExpected
  /\ UNCHANGED <<pos, reportFailures, rightmostFailuresPos, cache, stack, result, trace>>
  /\ UNCHANGED callVars

-----------------------------------------------------------------------------
(* Grammars.                                                               *)

La    == Literal(<<"a">>)
Lb    == Literal(<<"b">>)
Lab   == Literal(<<"a", "b">>)
Empty == Literal(<<>>)
ClassA     == Class(<< <<"a">> >>, FALSE, <<"[", "a", "]">>)
ClassAtoB  == Class(<< <<"a", "b">> >>, FALSE, <<"[", "a", "-", "b", "]">>)
ClassNotA  == Class(<< <<"a">> >>, TRUE, <<"[", "^", "a", "]">>)
ClassNone  == Class(<<>>, FALSE, <<"[", "]">>)
ClassAll   == Class(<<>>, TRUE, <<"[", "^", "]">>)

Leaves ==
  {La, Lb, Empty, AnyChar, ClassA, RuleRef("a"),
   SemanticAnd(ReturnTrue), SemanticAnd(ReturnFalse), SemanticNot(ReturnTrue)}

Unary(e) ==
  {Labeled("x", e), Optional(e), ZeroOrMore(e), OneOrMore(e), SimpleAnd(e),
   SimpleNot(e), Action(e, ReturnNull), Action(e, ReturnV)}

Level1 == Leaves \cup UNION {Unary(e) : e \in Leaves}
            \cup {Sequence(<<x, y>>) : x, y \in Leaves}
            \cup {Choice(<<x, y>>) : x, y \in Leaves}
            \cup {Sequence(<<>>)}

\* start = <e>;  a = "a" / "b" "a"
Over(e) ==
  Grammar("start", <<Rule("start", NoName, e),
                     Rule("a", NoName, Choice(<<La, Sequence(<<Lb, La>>)>>))>>)

\* start = a "b" / (a {return null;}) / "a"+;  a = "a" / "b" "a"
Backtracking ==
  Over(Choice(<<Sequence(<<RuleRef("a"), Lb>>),
                Action(RuleRef("a"), ReturnNull),
                OneOrMore(La)>>))

\* start = &a x:a y:.? {return "v";} / !"b" ("a" "b")* ;  a "A" = [a-b]
Deeper ==
  Grammar("start",
    <<Rule("start", NoName,
        Choice(<<Action(Sequence(<<SimpleAnd(RuleRef("a")), Labeled("x", RuleRef("a")),
                                   Labeled("y", Optional(AnyChar))>>), ReturnV),
                 Sequence(<<SimpleNot(Lb), ZeroOrMore(Sequence(<<La, Lb>>))>>)>>)),
      Rule("a", <<"A">>, ClassAtoB)>>)

\* start = a b / a a / b;  a = "a";  b "B" = "b" / [^a] / [] / [^]
ThreeRules ==
  Grammar("start",
    <<Rule("start", NoName,
        Choice(<<Sequence(<<RuleRef("a"), RuleRef("b")>>),
                 Sequence(<<RuleRef("a"), RuleRef("a")>>),
                 RuleRef("b")>>)),
      Rule("a", NoName, La),
      Rule("b", <<"B">>, Choice(<<Lb, ClassNotA, ClassNone, ClassAll>>))>>)

\* start = a;  a = "ab" / b;  b = "a"
Proxied ==
  Grammar("start",
    <<Rule("start", NoName, RuleRef("a")),
      Rule("a", NoName, Choice(<<Lab, RuleRef("b")>>)),
      Rule("b", NoName, La)>>)

\* start = "a" ("a" / "b") / "b";  a = "a" / "b" "a"
Rightmost == Over(Choice(<<Sequence(<<La, Choice(<<La, Lb>>)>>), Lb>>))

\* start = a "b" / "a" "a" / "a";  a = "a" / "b" "a"
Ordered ==
  Over(Choice(<<Sequence(<<RuleRef("a"), Lb>>), Sequence(<<La, La>>), La>>))

Grammars ==
  {Over(e) : e \in Level1}
    \cup {Backtracking, Deeper, ThreeRules, Proxied, Rightmost, Ordered}

NoOptions == [startRules |-> <<>>]

InitWith(g, opts) ==
  /\ source = g
  /\ ast = g
  /\ options = opts
  /\ pc = "proxyRules"
  /\ todo = Keys(g.rules)
  /\ program = NoProgram
  /\ mode = "compiled"
  /\ first = NoOutcome
  /\ Idle

Init == \E g \in Grammars : InitWith(g, NoOptions)

Next ==
  \/ ProxyRulesStep \/ ProxyRulesReturn \/ StackDepths \/ Emit
  \/ Parse \/ Finish
  \/ ExecSlot \/ ExecPos \/ ExecReport \/ ExecMatchFailed \/ ExecBranch
  \/ ExecMark \/ ExecCall \/ ExecCacheLookup \/ ExecCacheStore \/ ExecReturn

Spec == Init /\ [][Next]_vars

\* The steps of a running parse() call
Run ==
  \/ ExecSlot \/ ExecPos \/ ExecReport \/ ExecMatchFailed \/ ExecBranch
  \/ ExecMark \/ ExecCall \/ ExecCacheLookup \/ ExecCacheStore \/ ExecReturn
  \/ Finish

\* A parse() call that has begun keeps running: the JavaScript engine
\* executes the next statement as long as there is one.
\* The loops over every leaf, and the grammars without a loop over a leaf
LoopGrammars ==
  {Over(ZeroOrMore(e)) : e \in Leaves} \cup {Over(OneOrMore(e)) : e \in Leaves}
    \cup {Over(e) : e \in Leaves} \cup {Backtracking, Deeper}

InitLive == \E g \in LoopGrammars : InitWith(g, NoOptions)

SpecLive == InitLive /\ [][Next]_vars /\ WF_vars(Run)

\* Rule names, in the order the generated grammars use them
NamesTable == <<"start", "a", "b", "c", "d">>

\* Bodies of rule i of n: a literal, a reference to a later rule (a proxy), or
\* a sequence that refers to a later rule.  No rule refers to itself or to
\* an earlier rule, so the grammar is not left-recursive and every
\* reference names a rule.
ChainBodies(i, n) ==
  {La} \cup {RuleRef(NamesTable[j]) : j \in (i + 1)..n}
       \cup {Sequence(<<Lb, RuleRef(NamesTable[j])>>) : j \in (i + 1)..n}

\* The rule tables with rules i..n, in the order of NamesTable
RECURSIVE ChainTables(_, _, _)
ChainTables(i, n, displayNames) ==
  IF i > n THEN {<<>>}
  ELSE {<<Rule(NamesTable[i], d, e)>> \o t :
          d \in displayNames, e \in ChainBodies(i, n),
          t \in ChainTables(i + 1, n, displayNames)}

KeyOrders(n) == {p \in [1..n -> 1..n] : \A i, j \in 1..n : p[i] = p[j] => i = j}

\* Every key order of every table of n rules, with every start rule
ChainGrammars(n) ==
  {Grammar(NamesTable[s], [k \in 1..n |-> t[p[k]]]) :
     s \in 1..n, p \in KeyOrders(n), t \in ChainTables(1, n, {NoName})}

SmallExprs ==
  {La, RuleRef("a"), Sequence(<<>>), Sequence(<<La, La>>), ZeroOrMore(La),
   SimpleAnd(La), Action(La, ReturnV), SemanticAnd(ReturnTrue)}

Level2 ==
  Level1 \cup UNION {Unary(e) : e \in Level1}
         \cup {Sequence(<<x, y, z>>) : x, y, z \in SmallExprs}
         \cup {Choice(<<x, y, z>>) : x, y, z \in SmallExprs}

PassGrammars ==
  UNION {ChainGrammars(n) : n \in 1..MaxRules} \cup {Over(e) : e \in Level2}

InitPasses == \E g \in PassGrammars : InitWith(g, NoOptions)

NextPasses == ProxyRulesStep \/ ProxyRulesReturn \/ StackDepths \/ Emit

\* The compiler alone, on a wider family of grammars
SpecPasses == InitPasses /\ [][NextPasses]_vars

\* start = "a";  a = "b" "a"
TwoRules ==
  Grammar("start", <<Rule("start", NoName, La),
                     Rule("a", NoName, Sequence(<<Lb, La>>))>>)

\* start = !"b" "a"
OneRule ==
  Grammar("start", <<Rule("start", NoName, Sequence(<<SimpleNot(Lb), La>>))>>)

StartOptions ==
  {[startRules |-> rs] : rs \in {<<>>, <<"a">>, <<"start">>, <<"start", "a">>, <<"zz">>}}

InitStart == \E g \in {TwoRules, OneRule, Proxied}, o \in StartOptions : InitWith(g, o)

\* The compile option startRules and the argument startRule of parse()
SpecStart == InitStart /\ [][Next]_vars

\* parse() once more, on the same input, by the parser emitted from the AST as
\* delivered (stackDepths and emit, without proxyRules); the outcome of the
\* compiled parser is kept in `first`.
RunReference ==
  /\ pc = "done"
  /\ mode = "compiled"
  /\ startRule = Undefined
  /\ ~emitThrows(stackDepths(source), options)
  /\ mode' = "reference"
  /\ first' = outcome
  /\ Enter(Reference, input, Undefined)
  /\ UNCHANGED <<ast, options, todo, program, source>>

EquivGrammars ==
  {Grammar("start", t) :
     t \in UNION {ChainTables(1, n, {NoName, <<"S">>}) : n \in 1..MaxRules}}

InitEquiv == \E g \in EquivGrammars : InitWith(g, NoOptions)

NextEquiv == Next \/ RunReference

\* The compiled parser against the parser of the unmodified AST
SpecEquiv == InitEquiv /\ [][NextEquiv]_vars

\* parse() once more, on the same input and with the same start rule, by the
\* same parser with the memo cache disabled; the outcome of the parser with
\* the cache is kept in `first`.
RunUncached ==
  /\ pc = "done"
  /\ mode = "compiled"
  /\ trace.started # Undefined
  /\ mode' = "uncached"
  /\ first' = outcome
  /\ Enter(program, input, startRule)
  /\ UNCHANGED <<ast, options, todo, program, source>>

\* start = <e>;  a "A" = "a" "b" / "b"
OverNamed(e) ==
  Grammar("start", <<Rule("start", NoName, e),
                     Rule("a", <<"A">>, Choice(<<Sequence(<<La, Lb>>), Lb>>))>>)

\* Expressions that ask for the rule a twice at one position, the first
\* time inside a lookahead or not
Twice ==
  {Sequence(<<p, RuleRef("a")>>) :
     p \in {SimpleAnd(RuleRef("a")), SimpleNot(RuleRef("a")), Optional(La),
            SimpleNot(Sequence(<<RuleRef("a"), La>>))}}
  \cup {Choice(<<x, y>>) :
          x \in {Sequence(<<RuleRef("a"), La>>), Sequence(<<SimpleAnd(RuleRef("a")), Lb>>),
                 Sequence(<<SimpleNot(RuleRef("a")), La>>)},
          y \in {RuleRef("a"), Sequence(<<RuleRef("a"), Lb>>), La}}

CacheGrammars ==
  {Over(e) : e \in Twice} \cup {OverNamed(e) : e \in Twice}
    \cup {Backtracking, Deeper, ThreeRules}

InitCache == \E g \in CacheGrammars : InitWith(g, NoOptions)

NextCache == Next \/ RunUncached

\* The compiled parser against itself without the memo cache
SpecCache == InitCache /\ [][NextCache]_vars

\* The line terminators ("u2028" and "u2029" stand for the characters
\* U+2028 and U+2029) and one other character
LineChars == {"a", "\n", "\r", "u2028", "u2029"}

Texts == UNION {[1..n -> LineChars] : n \in 0..MaxLines}

\* A parse() call that is about to throw: the input and the position of the
\* rightmost failure
InitPosition ==
  /\ source = OneRule
  /\ ast = OneRule
  /\ options = NoOptions
  /\ pc = "position"
  /\ todo = <<>>
  /\ program = NoProgram
  /\ mode = "compiled"
  /\ first = NoOutcome
  /\ input \in Texts
  /\ rightmostFailuresPos \in 0..Len(input)
  /\ startRule = Undefined
  /\ pos = 0
  /\ reportFailures = 0
  /\ rightmostFailuresExpected = <<>>
  /\ cache = <<>>
  /\ stack = <<>>
  /\ result = Null
  /\ outcome = NoOutcome
  /\ trace = NoTrace

\* line 319: var errorPosition = computeErrorPosition();
ComputeErrorPosition ==
  /\ pc = "position"
  /\ pc' = "positioned"
  /\ outcome' = [kind   |-> "position",
                 line   |-> computeErrorPosition(input, rightmostFailuresPos).line,
                 column |-> computeErrorPosition(input, rightmostFailuresPos).column]
  /\ UNCHANGED <<pos, reportFailures, rightmostFailuresPos, rightmostFailuresExpected,
                 cache, stack, result, trace>>
  /\ UNCHANGED callVars

NextPosition == ComputeErrorPosition

\* computeErrorPosition on inputs with line terminators
SpecPosition == InitPosition /\ [][NextPosition]_vars


-----------------------------------------------------------------------------
(* Claims about the emitted parser.                                        *)

Parsing == pc \in {"running", "returned", "done"} /\ trace.started # Undefined

\* C1: every code fragment, run to its end in its context, either leaves a
\* non-null value in its result variable with pos at or past the entry
\* position, or leaves null with pos back at the entry position.
C1_SlotContract ==
  Parsing /\ trace.fragment.type # "none" =>
    LET f == trace.fragment
    IN  /\ f.value # Undef
        /\ IF f.value # Null THEN f.exit >= f.entry ELSE f.exit = f.entry

\* An action whose expression (a rule_ref answered from the cache) matched and
\* consumed input, and whose user block returned null.
C1_Witness ==
  /\ Parsing
  /\ trace.fragment.type = "action"
  /\ trace.fragment.value = Null
  /\ trace.inner.type = "rule_ref"
  /\ trace.inner.cached
  /\ trace.inner.exit > trace.inner.entry

\* C2: once the start rule has returned, parse() returns its result exactly
\* when the result is non-null and pos is input.length; otherwise it throws
\* a SyntaxError with message, line and column.
C2_ReturnsIffComplete ==
  pc = "done" /\ trace.started # Undefined =>
    IF result # Null /\ pos = Len(input)
      THEN outcome = [kind |-> "return", value |-> result]
      ELSE /\ outcome.kind = "SyntaxError"
           /\ DOMAIN outcome = {"kind", "message", "line", "column"}
           /\ Len(outcome.message) > 0
           /\ outcome.line >= 1
           /\ outcome.column >= 1

\* The start rule matched a proper prefix of the input: SyntaxError.
C2_Witness ==
  /\ pc = "done"
  /\ result # Null
  /\ pos < Len(input)
  /\ outcome.kind = "SyntaxError"

NoDuplicates(s) == \A i, j \in 1..Len(s) : s[i] = s[j] => i = j

\* C3: within one parse() call no rule body is evaluated twice at the same
\* position, a call answered from the cache yields the result and the
\* position the evaluation of the body yielded, and the cache holds only
\* entries of this call.
C3_Packrat ==
  Parsing =>
    /\ NoDuplicates(trace.bodyEvals)
    /\ \A key \in DOMAIN cache :
         \E i \in 1..Len(trace.bodyEvals) : trace.bodyEvals[i] = key
    /\ trace.lastCall.hit =>
         \E i \in 1..Len(trace.evaluated) :
           /\ trace.evaluated[i].key = <<trace.lastCall.name, trace.lastCall.at>>
           /\ trace.evaluated[i].result = trace.lastCall.result
           /\ trace.evaluated[i].nextPos = trace.lastCall.nextPos

\* A call answered from the cache, whose rule had consumed input.
C3_Witness ==
  /\ Parsing
  /\ trace.lastCall.hit
  /\ trace.lastCall.nextPos > trace.lastCall.at
  /\ pos = trace.lastCall.nextPos

Max(a, b) == IF a >= b THEN a ELSE b

RECURSIVE MaxPos(_)
MaxPos(log) == IF Len(log) = 0 THEN 0 ELSE Max(Head(log).pos, MaxPos(Tail(log)))

RECURSIVE FailuresAt(_, _)
FailuresAt(log, p) ==
  IF Len(log) = 0 THEN <<>>
  ELSE (IF Head(log).pos = p THEN <<Head(log).failure>> ELSE <<>>)
       \o FailuresAt(Tail(log), p)

\* C10: while parsing, rightmostFailuresPos is the greatest position at which
\* matchFailed was called (0 without calls), and rightmostFailuresExpected
\* lists, in call order, the failures of the calls made at that position
\* (so a call at a smaller position changed nothing).
C10_RightmostFailures ==
  pc \in {"running", "returned"} =>
    /\ rightmostFailuresPos = MaxPos(trace.failLog)
    /\ rightmostFailuresExpected = FailuresAt(trace.failLog, rightmostFailuresPos)

\* A call at a position left of the rightmost failure, after two calls at the
\* rightmost position.
C10_Witness ==
  /\ pc \in {"running", "returned"}
  /\ Len(trace.failLog) >= 3
  /\ trace.failLog[Len(trace.failLog)].pos < rightmostFailuresPos
  /\ Len(rightmostFailuresExpected) >= 2

-----------------------------------------------------------------------------
(* Claims about the passes and about the choice of the start rule.         *)

AfterProxyRules == pc # "proxyRules"

\* The proxy rules of the grammar as delivered, by name
SourceProxies ==
  {source.rules[i].name : i \in {j \in 1..Len(source.rules) :
                                   source.rules[j].expression.type = "rule_ref"}}

\* C5: after proxyRules no remaining rule has an expression of type rule_ref,
\* whatever the length of the proxy chains and the order of the rule keys:
\* exactly the rules that were proxies are gone, the others keep their order.
C5_NoProxyRuleRemains ==
  AfterProxyRules =>
    /\ \A i \in 1..Len(ast.rules) : ast.rules[i].expression.type # "rule_ref"
    /\ Keys(ast.rules) = SelectSeq(Keys(source.rules), LAMBDA n : n \notin SourceProxies)

\* The chain start -> a -> b, with the key a visited before the key start.
C5_Witness ==
  /\ AfterProxyRules
  /\ Keys(source.rules) = <<"a", "start", "b">>
  /\ source.startRule = "start"
  /\ RuleAt(source.rules, "start").expression = RuleRef("a")
  /\ RuleAt(source.rules, "a").expression = RuleRef("b")
  /\ Keys(ast.rules) = <<"b">>

RuleRefNames(node) == {n.name : n \in {m \in Nodes(node) : m.type = "rule_ref"}}

\* start = a;  a = "a"
StartIsProxy ==
  Grammar("start", <<Rule("start", NoName, RuleRef("a")), Rule("a", NoName, La)>>)

\* C6: after proxyRules every rule_ref of the AST names a key of
\* grammar.rules, grammar.startRule names a key of grammar.rules, and
\* grammar.rules is not empty; for  start = a; a = "a"  the start rule
\* becomes "a".
C6_ReferentialIntegrity ==
  AfterProxyRules =>
    /\ RuleRefNames(ast) \subseteq RuleNames(ast.rules)
    /\ ast.startRule \in RuleNames(ast.rules)
    /\ Len(ast.rules) > 0
    /\ source = StartIsProxy => ast.startRule = "a"

\* A deleted proxy that was the start rule and was referred to by a rule
\* that stays.
C6_Witness ==
  /\ AfterProxyRules
  /\ source.startRule = "a"
  /\ RuleAt(source.rules, "a").expression = RuleRef("b")
  /\ RuleAt(source.rules, "start").expression = Sequence(<<Lb, RuleRef("a")>>)
  /\ ast.startRule = "b"
  /\ RuleAt(ast.rules, "start").expression = Sequence(<<Lb, RuleRef("b")>>)

AfterStackDepths == pc \in {"emit", "ready", "failed", "running", "returned", "done"}

\* C7: after stackDepths every rule and every expression node carries a
\* resultStackDepth and a posStackDepth that are non-negative integers.
C7_DepthsAreNaturals ==
  AfterStackDepths =>
    \A n \in Nodes(ast) \ {ast} :
      n.resultStackDepth \in Nat /\ n.posStackDepth \in Nat

HasEmptySequence(g) ==
  \E n \in Nodes(g) : n.type = "sequence" /\ Len(n.elements) = 0

\* The depths are non-negative integers in every AST without a sequence of
\* zero elements.
DepthsAreNaturalsUnlessEmpty == HasEmptySequence(ast) \/ C7_DepthsAreNaturals

ExprResultVars(e) ==
  CASE e.e = "array"   -> {e.rs[i] : i \in 1..Len(e.rs)}
    [] e.e = "orEmpty" -> {e.r}
    [] e.e = "action"  -> {e.actuals[i].r : i \in 1..Len(e.actuals)}
    [] OTHER -> {}

CondResultVars(c) ==
  IF c.c \in {"isnull", "notnull", "reporton_isnull"} THEN {c.r} ELSE {}

\* The variables resultN that a piece of emitted code reads or writes
RECURSIVE UsedResultVars(_)
UsedResultVars(code) ==
  UNION {LET s == code[i]
         IN  CASE s.op = "assign" -> {s.r} \cup ExprResultVars(s.e)
               [] s.op = "push" -> {s.r, s.from}
               [] s.op \in {"cachestore", "return"} -> {s.r}
               [] s.op = "if" -> CondResultVars(s.c) \cup UsedResultVars(s.then)
                                   \cup UsedResultVars(s.else)
               [] s.op = "while" -> CondResultVars(s.c) \cup UsedResultVars(s.body)
               [] OTHER -> {}
         : i \in 1..Len(code)}

\* The variables posN that a piece of emitted code reads or writes
RECURSIVE UsedPosVars(_)
UsedPosVars(code) ==
  UNION {LET s == code[i]
         IN  CASE s.op \in {"savepos", "restorepos"} -> {s.p}
               [] s.op = "if" -> UsedPosVars(s.then) \cup UsedPosVars(s.else)
               [] s.op = "while" -> UsedPosVars(s.body)
               [] OTHER -> {}
         : i \in 1..Len(code)}

\* C9: every variable resultN or posN that the body of an emitted rule
\* function reads or writes is among the variables the function declares:
\* N is below the rule's resultStackDepth, or posStackDepth.
C9_DeclaredSlotsSuffice ==
  pc = "ready" =>
    \A i \in 1..Len(program.functions) :
      LET f == program.functions[i]
          rule == RuleAt(ast.rules, f.name)
      IN  /\ \A n \in UsedResultVars(f.code) : n < rule.resultStackDepth
          /\ \A n \in UsedPosVars(f.code) : n < rule.posStackDepth
          /\ UsedResultVars(f.code) \subseteq f.resultVars
          /\ UsedPosVars(f.code) \subseteq f.posVars

\* The declared slots suffice in every AST without a sequence of zero
\* elements.
DeclaredSlotsSufficeUnlessEmpty == HasEmptySequence(ast) \/ C9_DeclaredSlotsSuffice

\* The rule a parser with one exposed rule exposes
Exposed == CHOOSE n \in program.table : TRUE

\* C8: a parser that exposes exactly one rule accepts an explicit startRule
\* only if it is the name of that rule, raising "Invalid rule name"
\* otherwise, and runs the parse function of that rule.
C8_SingleExposedRule ==
  pc \in {"running", "returned", "done"} /\ program.single =>
    IF startRule # Undefined /\ startRule # Exposed
      THEN pc = "done" /\ outcome = [kind |-> "Error", message |-> "Invalid rule name"]
      ELSE trace.started = Exposed

\* The one exposed rule is grammar.startRule: C8 holds.
SingleExposedIsStartRule ==
  program.single /\ Exposed = program.startRule => C8_SingleExposedRule

\* C4: on every input, parse() of the parser emitted after proxyRules and
\* parse() of the parser emitted from the AST as delivered, both called
\* without a start rule, have the same outcome: the same value returned, or
\* a SyntaxError with the same message, line and column.
C4_ProxyRulesPreserveBehaviour ==
  pc = "done" /\ mode = "reference" => outcome = first

\* Without a displayName on a proxy rule the outcomes are the same.
SameOutcomeUnlessNamedProxy ==
  (\E i \in 1..Len(source.rules) :
     isProxyRule(source.rules[i]) /\ source.rules[i].displayName # NoName)
  \/ C4_ProxyRulesPreserveBehaviour

-----------------------------------------------------------------------------
(* Claims about choices, failures, termination and the cache.              *)

\* C11: the alternatives of a choice start in declaration order, each at the
\* entry position of the choice; an alternative after the first starts only
\* while the result variable is null; the choice ends with the value and
\* the position of the alternative evaluated last, which either matched or
\* is the last one declared, and a choice without a match leaves pos where
\* it was.
C11_OrderedChoice ==
  Parsing =>
    /\ trace.alternative.index = trace.alternative.prev + 1 \/ trace.alternative.index = 0
    /\ trace.alternative.at = trace.alternative.entry
    /\ trace.alternative.index > 1 => trace.alternative.before = Null
    /\ trace.choice.count > 0 =>
         /\ trace.choice.last \in 1..trace.choice.count
         /\ trace.choice.value # Null \/ trace.choice.last = trace.choice.count
         /\ trace.choice.value = trace.choice.alt.value
         /\ trace.choice.exit = trace.choice.alt.exit
         /\ trace.choice.entry = trace.choice.alt.entry
         /\ trace.choice.value = Null => trace.choice.exit = trace.choice.entry

\* The second of three alternatives matched, after the first had consumed
\* input and failed.
C11_Witness ==
  /\ Parsing
  /\ trace.choice.count = 3
  /\ trace.choice.last = 2
  /\ trace.choice.value # Null
  /\ trace.choice.exit > trace.choice.entry
  /\ trace.fragment.type = "choice"

\* C12: when the start rule has returned, either result is not null and pos
\* is input.length, or result is not null and pos is less than
\* input.length, or result is null, pos is 0 and rightmostFailuresExpected
\* holds at least one failure.
C12_ThreeStates ==
  pc = "returned" =>
    \/ result # Null /\ pos = Len(input)
    \/ result # Null /\ pos < Len(input)
    \/ result = Null /\ pos = 0 /\ Len(rightmostFailuresExpected) >= 1

\* The node types whose code can yield null without a call of matchFailed
SilentTypes == {"simple_and", "simple_not", "semantic_and", "semantic_not", "action"}

\* One of the three states is reached by every grammar without a lookahead,
\* a semantic predicate or an action.
ThreeStatesUnlessSilent ==
  (\E n \in Nodes(ast) : n.type \in SilentTypes) \/ C12_ThreeStates

\* C13: every call of parse terminates: it returns a value or throws.
C13_ParseTerminates == (pc = "running") ~> (pc = "done")

\* Every call of parse terminates in a grammar without zero_or_more and
\* one_or_more.
TerminatesWithoutLoops ==
  (pc = "running" /\ \A n \in Nodes(ast) : n.type \notin {"zero_or_more", "one_or_more"})
    ~> (pc = "done")

\* C14: on every input, parse() of the emitted parser and parse() of the same
\* parser with the memo cache disabled have the same outcome: the same value
\* returned, or a SyntaxError with the same message, line and column.
C14_CacheIsTransparent ==
  pc = "done" /\ mode = "uncached" => outcome = first

\* With and without the cache parse() returns the same value, or throws in
\* both cases.
SameValueWithoutCache ==
  pc = "done" /\ mode = "uncached" =>
    /\ outcome.kind = first.kind
    /\ outcome.kind = "return" => outcome = first

\* Line and column by the stated rule: "\n" increments the line unless the
\* character just before it is "\r"; "\r", U+2028 and U+2029 increment the
\* line; a line increment resets the column to 1; every other character
\* increments the column.
RECURSIVE StatedPosition(_, _)
StatedPosition(in, upTo) ==
  IF upTo = 0 THEN [line |-> 1, column |-> 1]
  ELSE LET before == StatedPosition(in, upTo - 1)
           ch == in[upTo]
       IN  IF ch = "\n"
             THEN IF upTo > 1 /\ in[upTo - 1] = "\r"
                    THEN [line |-> before.line, column |-> 1]
                    ELSE [line |-> before.line + 1, column |-> 1]
           ELSE IF ch \in {"\r", "u2028", "u2029"}
             THEN [line |-> before.line + 1, column |-> 1]
             ELSE [line |-> before.line, column |-> before.column + 1]

\* C15: computeErrorPosition returns the line and the column that the stated
\* rule gives for the characters before rightmostFailuresPos; a "\n" directly
\* after U+2028 or U+2029 counts as a further line.
C15_ErrorPosition ==
  pc = "positioned" =>
    /\ outcome.line = StatedPosition(input, rightmostFailuresPos).line
    /\ outcome.column = StatedPosition(input, rightmostFailuresPos).column

\* "\n" directly after U+2028 or U+2029, before the error position
SeparatorThenNewline ==
  \E i \in 2..rightmostFailuresPos :
    input[i] = "\n" /\ input[i - 1] \in {"u2028", "u2029"}

\* The stated rule gives the position computed, unless a "\n" directly
\* follows U+2028 or U+2029.
ErrorPositionUnlessSeparator == SeparatorThenNewline \/ C15_ErrorPosition

\* C16: when parse throws a SyntaxError, its line and column are those of the
\* offset max(pos, rightmostFailuresPos), the offset of the character that
\* the message names as found.
C16_PositionOfFound ==
  pc = "done" /\ outcome.kind = "SyntaxError" =>
    LET found == computeErrorPosition(input, Max(pos, rightmostFailuresPos))
    IN  outcome.line = found.line /\ outcome.column = found.column

\* Line and column are those of the character named, unless the start rule
\* matched beyond the rightmost failure.
PositionOfFoundUnlessBeyond ==
  (pc = "done" /\ pos > rightmostFailuresPos) \/ C16_PositionOfFound

\* The greatest element of a non-empty set of numbers
Greatest(S) == CHOOSE x \in S : \A y \in S : y <= x

\* The depths of node n are those of the recurrence.  A maximum over no
\* alternatives or no elements is no number: the recurrence gives nothing
\* for such a node.
FollowsRecurrence(n) ==
  LET r == n.resultStackDepth
      p == n.posStackDepth
  IN  CASE n.type \in {"rule_ref", "literal", "any", "class", "semantic_and",
                       "semantic_not"} ->
             r = 0 /\ p = 0
        [] n.type \in {"labeled", "optional"} ->
             r = n.expression.resultStackDepth /\ p = n.expression.posStackDepth
        [] n.type \in {"simple_and", "simple_not", "action"} ->
             /\ r = n.expression.resultStackDepth
             /\ p = Plus(n.expression.posStackDepth, 1)
        [] n.type \in {"zero_or_more", "one_or_more"} ->
             /\ r = Plus(n.expression.resultStackDepth, 1)
             /\ p = n.expression.posStackDepth
        [] n.type = "choice" ->
             Len(n.alternatives) > 0 =>
               /\ r = Greatest({n.alternatives[i].resultStackDepth :
                                  i \in 1..Len(n.alternatives)})
               /\ p = Greatest({n.alternatives[i].posStackDepth :
                                  i \in 1..Len(n.alternatives)})
        [] n.type = "sequence" ->
             Len(n.elements) > 0 =>
               /\ r = Plus(Greatest({Plus(n.elements[i].resultStackDepth, i - 1) :
                                       i \in 1..Len(n.elements)}), 1)
               /\ p = Plus(Greatest({n.elements[i].posStackDepth :
                                       i \in 1..Len(n.elements)}), 1)
        [] n.type = "rule" ->
             /\ r = Plus(n.expression.resultStackDepth, 1)
             /\ p = Plus(n.expression.posStackDepth, 1)

\* C17: after stackDepths the depths of every node follow the recurrence:
\* leaves 0 and 0; labeled and optional the depths of the child; simple_and,
\* simple_not and action the result depth of the child and its pos depth
\* plus 1; zero_or_more and one_or_more the result depth of the child plus 1
\* and its pos depth; choice the maximum over the alternatives; sequence
\* 1 + the maximum of i + the result depth of element i, and 1 + the maximum
\* pos depth; rule both depths of the expression plus 1.
C17_DepthRecurrence ==
  AfterStackDepths => \A n \in Nodes(ast) \ {ast} : FollowsRecurrence(n)

\* A sequence of three elements whose result depth comes from its second
\* element, itself a sequence.
C17_Witness ==
  /\ AfterStackDepths
  /\ \E n \in Nodes(ast) :
       /\ n.type = "sequence"
       /\ Len(n.elements) = 3
       /\ n.elements[2].type = "sequence"
       /\ n.elements[2].resultStackDepth = 2
       /\ n.elements[3].resultStackDepth = 0
       /\ n.resultStackDepth = 4
       /\ n.posStackDepth = 2
       /\ RuleAt(ast.rules, "start").resultStackDepth = 5

=============================================================================
